---- MODULE Spec2Model ----
(***************************************************************************)
(* A model of the SeventhLayer WebSocket server: websocket_server.py (the  *)
(* protocol engine: WebsocketServer registry/dispatcher and the            *)
(* per-connection WebSocketHandler) and server.py (the application         *)
(* callbacks wired into it).                                               *)
(*                                                                         *)
(* Python values are modelled with their type, [t |-> type, v |-> seq],    *)
(* because the code branches on isinstance(): a str is a sequence of code  *)
(* points, bytes and bytearray are sequences of 0..255.                    *)
(***************************************************************************)
EXTENDS Integers, Sequences, FiniteSets, TLC

\* ------------------------------------------------------------- constants
FIN == 128
OPCODE == 15
MASKED == 128
PAYLOAD_LEN == 127
OPCODE_CONTINUATION == 0
OPCODE_TEXT == 1
OPCODE_BINARY == 2
OPCODE_CLOSE_CONN == 8
OPCODE_PING == 9
OPCODE_PONG == 10
SIZE_LIMIT == 125

\* --------------------------------------------------------------- bounds
\* frames the peers send, all connections together
MaxFrames == 3
\* longest payload of a frame a peer sends (longer than a masking key)
MaxPayload == 5
\* send-path inputs reach MaxChunks * 125 + 50 bytes
MaxChunks == 2
\* broadcasts the application starts
MaxBroadcasts == 1

\* ------------------------------------------------------- python values
Str(s) == [t |-> "str", v |-> s]
Bytes(b) == [t |-> "bytes", v |-> b]
ByteArray(b) == [t |-> "bytearray", v |-> b]
\* the client handler_to_client returns when it finds none (ids start at 1)
None == [id |-> 0, handler |-> 0]

\* k copies of x
RECURSIVE Rep(_, _)
Rep(x, k) == IF k <= 0 THEN <<>> ELSE <<x>> \o Rep(x, k - 1)

RECURSIVE Concat(_)
Concat(ss) == IF ss = <<>> THEN <<>> ELSE Head(ss) \o Concat(Tail(ss))

\* payload[:n] and payload[n:]
Take(s, n) == SubSeq(s, 1, IF n < Len(s) THEN n ELSE Len(s))
Drop(s, n) == SubSeq(s, (IF n < Len(s) THEN n ELSE Len(s)) + 1, Len(s))

\* bitwise operators on bytes: a ^ b, b & 0x80, b & 0x0f, b & 0x7f
RECURSIVE Xor(_, _)
Xor(a, b) ==
    IF a = 0 THEN b
    ELSE IF b = 0 THEN a
    ELSE (((a % 2) + (b % 2)) % 2) + 2 * Xor(a \div 2, b \div 2)

RECURSIVE And(_, _)
And(a, b) ==
    IF a = 0 \/ b = 0 THEN 0
    ELSE ((a % 2) * (b % 2)) + 2 * And(a \div 2, b \div 2)

\* ------------------------------------------------------------- UTF-8
IsCont(b) == b >= 128 /\ b <= 191

\* data.encode('UTF-8') of one code point; <<>> stands for UnicodeEncodeError
EncodeCp(c) ==
    IF c < 128 THEN <<c>>
    ELSE IF c < 2048 THEN <<192 + (c \div 64), 128 + (c % 64)>>
    ELSE IF c >= 55296 /\ c <= 57343 THEN <<>>
    ELSE IF c < 65536 THEN
        <<224 + (c \div 4096), 128 + ((c \div 64) % 64), 128 + (c % 64)>>
    ELSE <<240 + (c \div 262144), 128 + ((c \div 4096) % 64),
           128 + ((c \div 64) % 64), 128 + (c % 64)>>

\* the encodings of s[lo..hi], one after the other
RECURSIVE EncodeRange(_, _, _)
EncodeRange(s, lo, hi) ==
    IF lo > hi THEN <<>>
    ELSE IF lo = hi THEN EncodeCp(s[lo])
    ELSE LET mid == (lo + hi) \div 2
         IN  EncodeRange(s, lo, mid) \o EncodeRange(s, mid + 1, hi)

\* encode_to_UTF8: the bytes, or False (ok = FALSE) on UnicodeEncodeError
encode_to_UTF8(data) ==
    IF \E i \in 1..Len(data) : EncodeCp(data[i]) = <<>>
    THEN [ok |-> FALSE, b |-> <<>>]
    ELSE [ok |-> TRUE, b |-> EncodeRange(data, 1, Len(data))]

\* width of the UTF-8 sequence starting at b[i], 0 if it is malformed
SeqWidth(b, i) ==
    LET n == Len(b)
        b0 == b[i]
    IN  IF b0 < 128 THEN 1
        ELSE IF b0 >= 194 /\ b0 <= 223 THEN
            IF i + 1 <= n /\ IsCont(b[i + 1]) THEN 2 ELSE 0
        ELSE IF b0 >= 224 /\ b0 <= 239 THEN
            IF i + 2 <= n /\ IsCont(b[i + 1]) /\ IsCont(b[i + 2])
               /\ (b0 # 224 \/ b[i + 1] >= 160)
               /\ (b0 # 237 \/ b[i + 1] <= 159)
            THEN 3 ELSE 0
        ELSE IF b0 >= 240 /\ b0 <= 244 THEN
            IF i + 3 <= n /\ IsCont(b[i + 1]) /\ IsCont(b[i + 2]) /\ IsCont(b[i + 3])
               /\ (b0 # 240 \/ b[i + 1] >= 144)
               /\ (b0 # 244 \/ b[i + 1] <= 143)
            THEN 4 ELSE 0
        ELSE 0

DecodeCp(b, i, w) ==
    IF w = 1 THEN b[i]
    ELSE IF w = 2 THEN (b[i] - 192) * 64 + (b[i + 1] - 128)
    ELSE IF w = 3 THEN (b[i] - 224) * 4096 + (b[i + 1] - 128) * 64 + (b[i + 2] - 128)
    ELSE (b[i] - 240) * 262144 + (b[i + 1] - 128) * 4096
         + (b[i + 2] - 128) * 64 + (b[i + 3] - 128)

\* b is well-formed UTF-8: it starts with a lead byte, every lead byte starts a
\* well-formed sequence, and a lead byte or the end follows each sequence
WellFormedUTF8(b) ==
    /\ b = <<>> \/ ~IsCont(b[1])
    /\ \A i \in 1..Len(b) :
        IsCont(b[i]) \/
        LET w == SeqWidth(b, i)
        IN  w > 0 /\ (i + w > Len(b) \/ ~IsCont(b[i + w]))

\* the code points of the sequences that start in b[lo..hi]
RECURSIVE DecodeRange(_, _, _)
DecodeRange(b, lo, hi) ==
    IF lo > hi THEN <<>>
    ELSE IF lo = hi THEN
        IF IsCont(b[lo]) THEN <<>> ELSE <<DecodeCp(b, lo, SeqWidth(b, lo))>>
    ELSE LET mid == (lo + hi) \div 2
         IN  DecodeRange(b, lo, mid) \o DecodeRange(b, mid + 1, hi)

\* try_decode_UTF8: the str, or False (ok = FALSE) on UnicodeDecodeError
try_decode_UTF8(data) ==
    IF WellFormedUTF8(data)
    THEN [ok |-> TRUE, s |-> DecodeRange(data, 1, Len(data))]
    ELSE [ok |-> FALSE, s |-> <<>>]

\* ------------------------------------------------ outbound frame codec
\* what one self.request.send(header + payload) puts on the wire
WireFrame(b0, b1, payload) == [b0 |-> b0, b1 |-> b1, payload |-> payload]
FrameFin(f) == f.b0 \div FIN
FrameOpcode(f) == f.b0 % 16

\* the result of a send call: what it returned, the frames it wrote and the
\* warning it logged ("none" if it logged nothing)
SendResult(ret, out) == [ret |-> ret, out |-> out, log |-> "none"]

\* return False after logger.warning("Can't send message, ...")
Refused(log) == [ret |-> "False", out |-> <<>>, log |-> log]

RECURSIVE continue_send_text(_, _)
continue_send_text(message, opcode) ==
    LET d == IF message.t = "bytes" THEN try_decode_UTF8(message.v)
             ELSE [ok |-> TRUE, s |-> message.v]
    IN  IF message.t \notin {"bytes", "str"} THEN Refused("not a string or bytes")
        ELSE IF message.t = "bytes" /\ (~d.ok \/ d.s = <<>>) THEN Refused("not valid UTF-8")
        ELSE LET e == encode_to_UTF8(d.s)
                 payload == e.b
             IN  IF ~e.ok THEN SendResult("TypeError", <<>>)
                 ELSE IF Len(payload) <= 125
                 THEN SendResult("None", <<WireFrame(FIN + opcode, Len(payload), payload)>>)
                 ELSE LET rest == continue_send_text(Bytes(Drop(payload, 125)),
                                                     OPCODE_CONTINUATION)
                      IN  [ret |-> IF rest.ret = "TypeError" THEN "TypeError" ELSE "None",
                           out |-> <<WireFrame(opcode, 125, Take(payload, 125))>> \o rest.out,
                           log |-> rest.log]

send_text(message, opcode) ==
    LET d == IF message.t = "bytes" THEN try_decode_UTF8(message.v)
             ELSE [ok |-> TRUE, s |-> message.v]
    IN  IF message.t \notin {"bytes", "str"} THEN Refused("not a string or bytes")
        ELSE IF message.t = "bytes" /\ (~d.ok \/ d.s = <<>>) THEN Refused("not valid UTF-8")
        ELSE LET e == encode_to_UTF8(d.s)
                 payload == e.b
             IN  IF ~e.ok THEN SendResult("TypeError", <<>>)
                 ELSE IF Len(payload) <= 125
                 THEN SendResult("None", <<WireFrame(FIN + opcode, Len(payload), payload)>>)
                 ELSE LET rest == continue_send_text(Bytes(Drop(payload, 125)),
                                                     OPCODE_CONTINUATION)
                      IN  [ret |-> IF rest.ret = "TypeError" THEN "TypeError" ELSE "None",
                           out |-> <<WireFrame(opcode, 125, Take(payload, 125))>> \o rest.out,
                           log |-> rest.log]

send_message(message) == send_text(message, OPCODE_TEXT)

send_pong(message) == send_text(message, OPCODE_PONG)

send_binary(message, opcode) ==
    LET payload == message.v
    IN  IF Len(payload) < 125
        THEN SendResult("None", <<WireFrame(FIN + opcode, Len(payload), payload)>>)
        ELSE SendResult("None", <<WireFrame(opcode, 125, Take(payload, 125))>>)

continue_send_binary(message, opcode) ==
    LET payload == message.v
    IN  IF Len(payload) < 125
        THEN SendResult("None", <<WireFrame(FIN + opcode, Len(payload), payload)>>)
        ELSE SendResult("None", <<WireFrame(opcode, 125, Take(payload, 125))>>)

\* ------------------------------------------------------ inbound frames
\* the connections (WebSocketHandler instances, one per accepted socket)
Handlers == {1, 2}

\* the plaintext bytes the peer of connection h puts in its payloads; the
\* peers use different bytes, so a byte tells which peer sent it
PeerBytes(h) == {64 + h, 66 + h}

\* the payloads a peer sends: empty, one byte, and MaxPayload bytes
Payloads(h) ==
    LET b == CHOOSE x \in PeerBytes(h) : TRUE
    IN  {<<>>, <<b>>, Rep(b, MaxPayload - 1) \o <<b + 2>>}

\* the 4-byte masking keys the peers use
MaskKeys == {<<1, 2, 3, 4>>, <<255, 0, 170, 85>>}

\* the two header bytes a client sends in front of a frame (RFC 6455 5.2)
PeerHeader(f) ==
    <<(IF f.fin THEN 128 ELSE 0) + f.opcode, (IF f.masked THEN 128 ELSE 0) + Len(f.plain)>>

\* what a client does to its payload before sending (RFC 6455 5.3)
PeerMask(plain, key) == [i \in 1..Len(plain) |-> Xor(plain[i], key[((i - 1) % 4) + 1])]

\* the frames the peer of h may send: data frames, control frames and frames
\* of an opcode RFC 6455 reserves (3), masked as a client must, and the same
\* left unmasked
DataFrames(h) ==
    [fin : BOOLEAN, opcode : {0, 1, 2}, masked : {TRUE}, plain : Payloads(h)]
ControlFrames(h) ==
    [fin : {TRUE}, opcode : {3, 8, 9, 10}, masked : {TRUE}, plain : Payloads(h)]
UnmaskedFrames(h) ==
    [fin : {TRUE}, opcode : {0, 1, 2, 3, 8, 9, 10}, masked : {FALSE}, plain : Payloads(h)]
PeerFrames(h) == DataFrames(h) \cup ControlFrames(h) \cup UnmaskedFrames(h)

\* the frames of a fragmented binary message
FragmentFrames(h) ==
    [fin : BOOLEAN, opcode : {0, 2}, masked : {TRUE}, plain : {<<64 + h>>}]

\* one frame for each way read_next_message can go
LifecycleFrames(h) ==
    [fin : {TRUE}, opcode : {0, 1, 2, 3, 8, 9}, masked : {TRUE}, plain : {<<64 + h>>}]
    \cup [fin : {FALSE}, opcode : {1}, masked : BOOLEAN, plain : {<<64 + h>>}]

NoFrame == [fin |-> FALSE, opcode |-> 0, masked |-> FALSE, plain |-> <<>>]

\* the unmasking loop with the key index off by one
UnmaskShifted(data, masks) == [i \in 1..Len(data) |-> Xor(data[i], masks[(i % 4) + 1])]

\* the unmasking loop of read_next_message
Unmask(data, masks) == [i \in 1..Len(data) |-> Xor(data[i], masks[((i - 1) % 4) + 1])]

\* the route without the test of the mask bit
RouteUnchecked(opcode, masked) ==
    IF opcode = OPCODE_CLOSE_CONN THEN "close"
    ELSE IF opcode = OPCODE_CONTINUATION THEN "continuation"
    ELSE IF opcode = OPCODE_BINARY THEN "binary"
    ELSE IF opcode = OPCODE_TEXT THEN "text"
    ELSE IF opcode = OPCODE_PING THEN "ping"
    ELSE IF opcode = OPCODE_PONG THEN "pong"
    ELSE "unknown"

\* the route read_next_message takes from the two header bytes
Route(opcode, masked) ==
    IF opcode = OPCODE_CLOSE_CONN THEN "close"
    ELSE IF ~masked THEN "unmasked"
    ELSE IF opcode = OPCODE_CONTINUATION THEN "continuation"
    ELSE IF opcode = OPCODE_BINARY THEN "binary"
    ELSE IF opcode = OPCODE_TEXT THEN "text"
    ELSE IF opcode = OPCODE_PING THEN "ping"
    ELSE IF opcode = OPCODE_PONG THEN "pong"
    ELSE "unknown"

\* the contents of upload/submission.zip
UploadFile == <<65, 65>>

\* ------------------------------------------- server.py: the callbacks
\* str.isspace() code points, as str.strip() removes them
Whitespace == {9, 10, 11, 12, 13, 28, 29, 30, 31, 32, 133, 160}

RECURSIVE LStrip(_)
LStrip(s) == IF s # <<>> /\ Head(s) \in Whitespace THEN LStrip(Tail(s)) ELSE s

RECURSIVE RStrip(_)
RStrip(s) ==
    IF s # <<>> /\ s[Len(s)] \in Whitespace THEN RStrip(SubSeq(s, 1, Len(s) - 1)) ELSE s

Strip(s) == LStrip(RStrip(s))

\* message.split(' ', 1) of a message that holds a space
FirstSpace(s) == CHOOSE i \in 1..Len(s) : s[i] = 32 /\ \A j \in 1..(i - 1) : s[j] # 32
SplitContent(s) == Strip(SubSeq(s, FirstSpace(s) + 1, Len(s)))
HasSpace(s) == \E i \in 1..Len(s) : s[i] = 32

\* '!echo' and '!submission'
EchoCommand == <<33, 101, 99, 104, 111>>
SubmissionCommand == <<33, 115, 117, 98, 109, 105, 115, 115, 105, 111, 110>>

\* '!echo ' and the letter the peer of h asks to be echoed
EchoPrefix == EchoCommand \o <<32>>
EchoLetter(h) == 64 + h

\* the frames of the application protocol the peer of h sends: an echo
\* command whole (plain and with blanks around its content) and in two
\* fragments, the submission command, and upload/submission.zip whole and in
\* two fragments
AppFrames(h) ==
    [fin : {TRUE}, opcode : {OPCODE_TEXT}, masked : {TRUE},
     plain : {EchoPrefix \o <<EchoLetter(h)>>, EchoPrefix \o <<32, EchoLetter(h), 32>>,
              SubmissionCommand}]
    \cup [fin : {FALSE}, opcode : {OPCODE_TEXT}, masked : {TRUE}, plain : {Take(EchoCommand, 3)}]
    \cup [fin : BOOLEAN, opcode : {OPCODE_CONTINUATION}, masked : {TRUE},
          plain : {Drop(EchoPrefix, 3) \o <<EchoLetter(h)>>, Drop(UploadFile, 1)}]
    \cup [fin : {TRUE}, opcode : {OPCODE_BINARY}, masked : {TRUE}, plain : {UploadFile}]
    \cup [fin : {FALSE}, opcode : {OPCODE_BINARY}, masked : {TRUE}, plain : {Take(UploadFile, 1)}]

\* what a callback did: the exception it raised ("none" if it returned), the
\* frames it wrote to the client's transport, the handler's message_buffer and
\* message_or_binary after it, what it did to the handler's binary_buffer
\* ("keep", "append" in place, "reset" to a fresh bytearray) and whether it
\* wrote download/submission.zip
Effect(exc, out, mbuf, mob, bin, wrote) ==
    [exc |-> exc, out |-> out, mbuf |-> mbuf, mob |-> mob, bin |-> bin, wrote |-> wrote]

\* the loop of message_handler that sends the rest of the file
RECURSIVE SendContinuations(_)
SendContinuations(rest) ==
    IF rest = <<>> THEN <<>>
    ELSE continue_send_binary(ByteArray(Take(rest, SIZE_LIMIT)), OPCODE_CONTINUATION).out
         \o SendContinuations(Drop(rest, SIZE_LIMIT))

SendSubmission(file) ==
    send_binary(ByteArray(Take(file, SIZE_LIMIT)), OPCODE_BINARY).out
    \o SendContinuations(Drop(file, SIZE_LIMIT))

\* the md5 comparison of download/submission.zip (just written with message)
\* against upload/submission.zip, sent back as '1' or '0'
Verdict(message) == Str(IF message = UploadFile THEN <<49>> ELSE <<48>>)

\* client is the record handler_to_client returned, or None; self holds the
\* handler's message_buffer (mbuf) and message_or_binary (mob)
message_handler(client, self, message, fin) ==
    LET d == try_decode_UTF8(message)
        m == d.s
        echo == Take(m, 5) = EchoCommand /\ HasSpace(m)
        subm == Take(m, 11) = SubmissionCommand
    IN  IF ~d.ok THEN Effect("UnicodeDecodeError", <<>>, self.mbuf, self.mob, "keep", FALSE)
        ELSE IF fin THEN
            IF (echo \/ subm) /\ client = None
            THEN Effect("TypeError", <<>>, self.mbuf, self.mob, "keep", FALSE)
            ELSE Effect("none",
                        (IF echo THEN send_message(Str(SplitContent(m))).out ELSE <<>>)
                        \o (IF subm THEN SendSubmission(UploadFile) ELSE <<>>),
                        self.mbuf, self.mob, "keep", FALSE)
        ELSE IF client = None
             THEN Effect("TypeError", <<>>, self.mbuf, self.mob, "keep", FALSE)
             ELSE Effect("none", <<>>, self.mbuf \o m, 0, "keep", FALSE)

binary_handler(client, self, message, fin) ==
    IF fin THEN
        IF client = None
        THEN Effect("TypeError", <<>>, self.mbuf, self.mob, "keep", TRUE)
        ELSE Effect("none", send_message(Verdict(message)).out,
                    self.mbuf, self.mob, "keep", TRUE)
    ELSE IF client = None
         THEN Effect("TypeError", <<>>, self.mbuf, self.mob, "keep", FALSE)
         ELSE Effect("none", <<>>, self.mbuf, 1, "append", FALSE)

\* if (client['handler'].message_or_binary): the binary branch, else the text one
ContinuationPath(mob) == IF mob # 0 THEN "binary" ELSE "text"

continuation_handler(client, self, message, fin) ==
    IF client = None
    THEN Effect("TypeError", <<>>, self.mbuf, self.mob, "keep", FALSE)
    ELSE IF ContinuationPath(self.mob) = "binary" THEN
        IF fin
        THEN Effect("none", send_message(Verdict(message)).out,
                    self.mbuf, self.mob, "reset", TRUE)
        ELSE Effect("none", <<>>, self.mbuf, self.mob, "append", FALSE)
    \* ' ' in message and message_buffer += message, on a bytearray: TypeError
    ELSE Effect("TypeError", <<>>, self.mbuf, self.mob, "keep", FALSE)

\* client_left of server.py: client['id'] of None raises
client_left(client) == IF client = None THEN "TypeError" ELSE "none"

\* --------------------------------------------------------------- state
VARIABLES
    clients,            \* WebsocketServer.clients: the list of client records
    id_counter,         \* WebsocketServer.id_counter
    keep_alive,         \* per handler
    handshake_done,     \* per handler
    valid_client,       \* per handler
    message_or_binary,  \* per handler (an int: assignment makes it an instance attribute)
    message_buffer,     \* per handler (a str: += makes a new instance attribute)
    binary_buffer,      \* per handler: own |-> FALSE while the attribute is the
                        \* class-level bytearray, TRUE once it is a bytearray of its own (v)
    class_binary_buffer,\* the contents of the bytearray WebSocketHandler.binary_buffer
    download,           \* the contents of download/submission.zip
    pc,                 \* per connection thread: where it is
    loc,                \* per connection thread: its local variables
    obs,                \* per connection: what its peer sent and saw last
    bc,                 \* the application thread that calls send_message_to_all
    snd                 \* a send call on a handler of its own: argument and result

vars == <<clients, id_counter, keep_alive, handshake_done, valid_client,
          message_or_binary, message_buffer, binary_buffer, class_binary_buffer,
          download, pc, loc, obs, bc, snd>>

NoCall == [op |-> "none", client |-> None, msg |-> <<>>, fin |-> FALSE]

NoLocals == [it |-> 0, client |-> None, tmp |-> 0, ret |-> "none",
             op |-> "none", msg |-> <<>>, fin |-> FALSE]

NoObs == [rx |-> NoFrame, got |-> "none", call |-> NoCall, wire |-> <<>>,
          exc |-> "none", left_exc |-> "none", response |-> 0, new_client |-> 0, client_left |-> 0,
          left_arg |-> None, assigned |-> 0, nread |-> 0, handshakes |-> 0,
          defect |-> FALSE, kind |-> "none", whole |-> [kind |-> "none", msg |-> <<>>]]

\* the bytearray handler.binary_buffer evaluates to
BinaryBufferOf(h) ==
    IF binary_buffer[h].own THEN binary_buffer[h].v ELSE class_binary_buffer

InitServer ==
    /\ clients = <<>>
    /\ id_counter = 0
    /\ keep_alive = [h \in Handlers |-> FALSE]
    /\ handshake_done = [h \in Handlers |-> FALSE]
    /\ valid_client = [h \in Handlers |-> FALSE]
    /\ message_or_binary = [h \in Handlers |-> 0]
    /\ message_buffer = [h \in Handlers |-> <<>>]
    /\ binary_buffer = [h \in Handlers |-> [own |-> FALSE, v |-> <<>>]]
    /\ class_binary_buffer = <<>>
    /\ download = <<>>
    /\ pc = [h \in Handlers |-> "setup"]
    /\ loc = [h \in Handlers |-> NoLocals]
    /\ obs = [h \in Handlers |-> NoObs]
    /\ bc = [pc |-> "idle", it |-> 0, calls |-> 0, stable |-> {}, delivered |-> <<>>]

NoSend == [op |-> "none", arg |-> Str(<<>>), res |-> SendResult("None", <<>>)]

Init == InitServer /\ snd = NoSend

handlerVars == <<keep_alive, handshake_done, valid_client, message_or_binary,
                 message_buffer, binary_buffer, class_binary_buffer, download>>

\* ------------------------------------------- WebSocketHandler: lifecycle
\* the loop of handle without its test of keep_alive
HandleBranchUntested(ka, hd, vc) ==
    IF ~hd THEN "handshake"
    ELSE IF vc THEN "read_next_message"
    ELSE "spin"

\* handle: what the while loop does next, from self.keep_alive,
\* self.handshake_done and self.valid_client
HandleBranch(ka, hd, vc) ==
    IF ~ka THEN "exit"
    ELSE IF ~hd THEN "handshake"
    ELSE IF vc THEN "read_next_message"
    ELSE "spin"

HandleDoes(h) == HandleBranch(keep_alive[h], handshake_done[h], valid_client[h])

\* setup
Setup(h) ==
    /\ pc[h] = "setup"
    /\ keep_alive' = [keep_alive EXCEPT ![h] = TRUE]
    /\ handshake_done' = [handshake_done EXCEPT ![h] = FALSE]
    /\ valid_client' = [valid_client EXCEPT ![h] = FALSE]
    /\ pc' = [pc EXCEPT ![h] = "handle"]
    /\ UNCHANGED <<clients, id_counter, message_or_binary, message_buffer, binary_buffer,
                   class_binary_buffer, download, loc, obs, bc, snd>>

\* handle: the while loop ends; BaseRequestHandler.__init__ goes on to finish()
HandleExit(h) ==
    /\ pc[h] = "handle"
    /\ HandleDoes(h) = "exit"
    /\ pc' = [pc EXCEPT ![h] = "finish"]
    /\ obs' = [obs EXCEPT ![h].rx = NoFrame, ![h].got = "none", ![h].call = NoCall,
                          ![h].wire = <<>>]
    /\ UNCHANGED <<clients, id_counter, handlerVars, loc, bc, snd>>

\* the upgrade requests a peer may send: is the first line a GET, has every
\* header line a colon, the Upgrade header (or "absent"), is the key there
Requests ==
    [get : BOOLEAN, colon : BOOLEAN, upgrade : {"websocket", "WebSocket", "h2c", "absent"},
     key : BOOLEAN]

\* the request is not a well-formed upgrade to websocket
Defective(req) ==
    \/ ~req.get
    \/ ~req.colon
    \/ req.upgrade \notin {"websocket", "WebSocket"}
    \/ ~req.key

\* the handshake without the lookup of Sec-WebSocket-Key
HandshakeOutcomeKeyless(req) ==
    IF ~req.get THEN "AssertionError"
    ELSE IF ~req.colon THEN "ValueError"
    ELSE IF req.upgrade = "absent" THEN "KeyError"
    ELSE IF req.upgrade \notin {"websocket", "WebSocket"} THEN "closed"
    ELSE "ok"

\* read_http_headers and handshake up to the response: "ok", "closed"
\* (keep_alive cleared) or the exception that leaves handle()
HandshakeOutcome(req) ==
    IF ~req.get THEN "AssertionError"
    ELSE IF ~req.colon THEN "ValueError"
    ELSE IF req.upgrade = "absent" THEN "KeyError"
    ELSE IF req.upgrade \notin {"websocket", "WebSocket"} THEN "closed"
    ELSE IF ~req.key THEN "closed"
    ELSE "ok"

handshake(h) ==
    /\ pc[h] = "handle"
    /\ HandleDoes(h) = "handshake"
    /\ \E req \in Requests :
        LET r == HandshakeOutcome(req)
        IN  /\ keep_alive' = [keep_alive EXCEPT ![h] = (r # "closed")]
            /\ handshake_done' = [handshake_done EXCEPT ![h] = (r = "ok")]
            /\ valid_client' = [valid_client EXCEPT ![h] = (r = "ok")]
            /\ obs' = [obs EXCEPT ![h].response = IF r = "ok" THEN 1 ELSE 0,
                                  ![h].handshakes = @ + 1,
                                  ![h].defect = Defective(req),
                                  ![h].exc = IF r \in {"ok", "closed"} THEN "none" ELSE r]
            /\ pc' = [pc EXCEPT ![h] = IF r = "ok" THEN "new_client"
                                       ELSE IF r = "closed" THEN "handle" ELSE "finish"]
    /\ UNCHANGED <<clients, id_counter, message_or_binary, message_buffer, binary_buffer,
                   class_binary_buffer, download, loc, bc, snd>>

\* ------------------------------------- WebsocketServer._new_client_
\* self.id_counter += 1: the read ...
NewClientLoad(h) ==
    /\ pc[h] = "new_client"
    /\ loc' = [loc EXCEPT ![h].tmp = id_counter]
    /\ pc' = [pc EXCEPT ![h] = "nc_store"]
    /\ UNCHANGED <<clients, id_counter, handlerVars, obs, bc, snd>>

\* ... and the write
NewClientStore(h) ==
    /\ pc[h] = "nc_store"
    /\ id_counter' = loc[h].tmp + 1
    /\ pc' = [pc EXCEPT ![h] = "nc_record"]
    /\ UNCHANGED <<clients, handlerVars, loc, obs, bc, snd>>

\* client = {'id': self.id_counter, 'handler': handler, ...}
NewClientRecord(h) ==
    /\ pc[h] = "nc_record"
    /\ loc' = [loc EXCEPT ![h].client = [id |-> id_counter, handler |-> h]]
    /\ pc' = [pc EXCEPT ![h] = "nc_append"]
    /\ UNCHANGED <<clients, id_counter, handlerVars, obs, bc, snd>>

\* self.clients.append(client); self.new_client(client, self)
NewClientAppend(h) ==
    /\ pc[h] = "nc_append"
    /\ clients' = Append(clients, loc[h].client)
    /\ obs' = [obs EXCEPT ![h].new_client = @ + 1, ![h].assigned = loc[h].client.id]
    /\ loc' = [loc EXCEPT ![h] = NoLocals]
    /\ pc' = [pc EXCEPT ![h] = "handle"]
    /\ UNCHANGED <<id_counter, handlerVars, bc, snd>>

\* ---------------------------------- WebSocketHandler.read_next_message
\* parameters after self of the _*_received_ methods, and the arguments
\* opcode_handler(self, message_bytes, fin) passes
HandlerParams(route) == IF route \in {"ping", "pong"} THEN 2 ELSE 3
CallArgs == 3

\* _ping_received_: handler.send_pong(msg), msg being the bytearray
\* read_next_message built
ping_received(msg) == send_pong(ByteArray(msg))

\* the bytes of frame f on the wire: header, masking key, payload
FrameLen(f) == 2 + (IF f.masked THEN 4 ELSE 0) + Len(f.plain)

\* self.rfile.read(num) when n bytes are left in the stream
ReadBytes(s, n) == Take(s, IF n < 0 THEN 0 ELSE n)

\* one frame of the peer's stream is read: got is "frame" (f, masked with key),
\* "short" (the stream ends after the first avail bytes of f), "eof" (the
\* stream ended: b1, b2 = 0, 0) or "reset" (ECONNRESET)
Received(h, got, f, key, avail) ==
    LET header == IF got \in {"frame", "short"} /\ avail >= 2 THEN PeerHeader(f) ELSE <<0, 0>>
        b1 == header[1]
        b2 == header[2]
        fin == And(b1, FIN)
        opcode == And(b1, OPCODE)
        masked == And(b2, MASKED)
        payload_length == And(b2, PAYLOAD_LEN)
        route == IF got = "reset" THEN "reset" ELSE Route(opcode, masked # 0)
        data == IF f.masked THEN PeerMask(f.plain, key) ELSE f.plain
        masks == ReadBytes(key, avail - 2)
        message_bytes == Unmask(ReadBytes(Take(data, payload_length), avail - 6), masks)
        calls == route \in {"continuation", "binary", "text", "ping", "pong"}
        raises == calls /\ HandlerParams(route) # CallArgs
        pong == IF route = "ping" /\ ~raises THEN ping_received(message_bytes).out ELSE <<>>
    IN  /\ keep_alive' = [keep_alive EXCEPT ![h] = calls]
        /\ obs' = [obs EXCEPT ![h].rx = f, ![h].got = got, ![h].call = NoCall,
                              ![h].wire = pong,
                              ![h].nread = IF got \in {"frame", "short"} THEN @ + 1 ELSE @,
                              ![h].exc = IF raises THEN "TypeError" ELSE "none"]
        /\ loc' = [loc EXCEPT ![h] =
                     IF calls /\ ~raises /\ route \notin {"ping", "pong"}
                     THEN [NoLocals EXCEPT !.it = 1, !.ret = "dispatch", !.op = route,
                                           !.msg = message_bytes, !.fin = (fin # 0)]
                     ELSE NoLocals]
        /\ pc' = [pc EXCEPT ![h] =
                     IF raises THEN "finish"
                     ELSE IF calls /\ route \notin {"ping", "pong"} THEN "lookup"
                     ELSE "handle"]

RECURSIVE SumRead(_)
SumRead(H) ==
    IF H = {} THEN 0
    ELSE LET h == CHOOSE x \in H : TRUE IN obs[h].nread + SumRead(H \ {h})

FramesRead == SumRead(Handlers)

\* read_next_message with the peer's frames drawn from Frames
ReadFrom(h, Frames) ==
    /\ pc[h] = "handle"
    /\ HandleDoes(h) = "read_next_message"
    /\ \/ \E got \in {"eof", "reset"} : Received(h, got, NoFrame, <<0, 0, 0, 0>>, 0)
       \/ /\ FramesRead < MaxFrames
          /\ obs[h].got # "short"
          /\ \E f \in Frames, key \in MaskKeys : Received(h, "frame", f, key, FrameLen(f))
    /\ UNCHANGED <<clients, id_counter, handshake_done, valid_client, message_or_binary,
                   message_buffer, binary_buffer, class_binary_buffer, download, bc, snd>>

\* connection 1 is sent every kind of frame while connection 2 is sent a
\* fragmented binary message
read_next_message(h) == ReadFrom(h, IF h = 1 THEN PeerFrames(h) ELSE FragmentFrames(h))

\* the connections' lifecycle: one frame of each kind
ReadLifecycle(h) == ReadFrom(h, LifecycleFrames(h))

\* the frames a peer is cut off in: an echo command, the file, a ping
TruncatedFrames(h) ==
    [fin : {TRUE}, opcode : {OPCODE_TEXT}, masked : {TRUE},
     plain : {EchoPrefix \o <<EchoLetter(h)>>}]
    \cup [fin : {TRUE}, opcode : {OPCODE_BINARY, OPCODE_PING}, masked : {TRUE},
          plain : {UploadFile}]

\* the same frames, whole
ReadWhole(h) == ReadFrom(h, TruncatedFrames(h))

\* read_next_message on a stream that ends inside a frame
ReadTruncated(h) ==
    /\ pc[h] = "handle"
    /\ HandleDoes(h) = "read_next_message"
    /\ FramesRead < MaxFrames
    /\ obs[h].got # "short"
    /\ \E f \in TruncatedFrames(h), key \in MaskKeys :
          \E avail \in 0..(FrameLen(f) - 1) : Received(h, "short", f, key, avail)
    /\ UNCHANGED <<clients, id_counter, handshake_done, valid_client, message_or_binary,
                   message_buffer, binary_buffer, class_binary_buffer, download, bc, snd>>

\* the peers speak the application protocol
ReadApp(h) == ReadFrom(h, AppFrames(h))

\* --------------------------------- WebsocketServer.handler_to_client
\* one turn of: for client in self.clients: if client['handler'] == handler
handler_to_client(h) ==
    /\ pc[h] = "lookup"
    /\ LET i == loc[h].it
       IN  IF i > Len(clients)
           THEN /\ loc' = [loc EXCEPT ![h].client = None]
                /\ pc' = [pc EXCEPT ![h] = loc[h].ret]
           ELSE IF clients[i].handler = h
           THEN /\ loc' = [loc EXCEPT ![h].client = clients[i]]
                /\ pc' = [pc EXCEPT ![h] = loc[h].ret]
           ELSE /\ loc' = [loc EXCEPT ![h].it = i + 1]
                /\ pc' = pc
    /\ UNCHANGED <<clients, id_counter, handlerVars, obs, bc, snd>>

\* ------------- _message_received_ / _binary_received_ / _continuation_received_
\* the message the peer has sent so far, after a frame (op, msg): a text or
\* binary frame starts one, a continuation frame adds its payload
Assembled(w, op, msg) ==
    IF op \in {"text", "binary"} THEN [kind |-> op, msg |-> msg]
    ELSE [kind |-> w.kind, msg |-> w.msg \o msg]

\* the kind of the fragmented message the peer is in the middle of, after a
\* frame (op, fin) that follows a stream of kind k: "none" after a final frame
SequenceKind(k, op, fin) ==
    IF fin THEN "none"
    ELSE IF op \in {"text", "binary"} THEN op
    ELSE k

CallbackEffect(op, client, self, message, fin) ==
    IF op = "text" THEN message_handler(client, self, message, fin)
    ELSE IF op = "binary" THEN binary_handler(client, self, message, fin)
    ELSE continuation_handler(client, self, message, fin)

Dispatch(h) ==
    /\ pc[h] = "dispatch"
    /\ LET l == loc[h]
           self == [mbuf |-> message_buffer[h], mob |-> message_or_binary[h]]
           e == CallbackEffect(l.op, l.client, self, l.msg, l.fin)
       IN  /\ message_buffer' = [message_buffer EXCEPT ![h] = e.mbuf]
           /\ message_or_binary' = [message_or_binary EXCEPT ![h] = e.mob]
           /\ binary_buffer' =
                IF e.bin = "reset" THEN [binary_buffer EXCEPT ![h] = [own |-> TRUE, v |-> <<>>]]
                ELSE IF e.bin = "append" /\ binary_buffer[h].own
                THEN [binary_buffer EXCEPT ![h].v = @ \o l.msg]
                ELSE binary_buffer
           /\ class_binary_buffer' =
                IF e.bin = "append" /\ ~binary_buffer[h].own
                THEN class_binary_buffer \o l.msg
                ELSE class_binary_buffer
           /\ download' = IF e.wrote THEN l.msg ELSE download
           /\ obs' = [obs EXCEPT ![h].call = [op |-> l.op, client |-> l.client,
                                              msg |-> l.msg, fin |-> l.fin],
                                 ![h].exc = e.exc,
                                 ![h].kind = SequenceKind(@, l.op, l.fin),
                                 ![h].whole = Assembled(@, l.op, l.msg),
                                 ![IF l.client = None THEN h ELSE l.client.handler].wire = e.out]
           /\ pc' = [pc EXCEPT ![h] = IF e.exc = "none" THEN "handle" ELSE "finish"]
    /\ loc' = [loc EXCEPT ![h] = NoLocals]
    /\ UNCHANGED <<clients, id_counter, keep_alive, handshake_done, valid_client, bc, snd>>

\* ------------------------ WebSocketHandler.finish and _client_left_
\* finish: self.server._client_left_(self) starts with handler_to_client
finish(h) ==
    /\ pc[h] = "finish"
    /\ pc' = [pc EXCEPT ![h] = "lookup"]
    /\ loc' = [loc EXCEPT ![h] = [NoLocals EXCEPT !.it = 1, !.ret = "left"]]
    /\ obs' = [obs EXCEPT ![h].rx = NoFrame, ![h].got = "none", ![h].call = NoCall,
                          ![h].wire = <<>>]
    /\ UNCHANGED <<clients, id_counter, handlerVars, bc, snd>>

\* list.remove: the first element equal to client goes
RECURSIVE Remove(_, _)
Remove(list, client) ==
    IF list = <<>> THEN <<>>
    ELSE IF Head(list) = client THEN Tail(list)
    ELSE <<Head(list)>> \o Remove(Tail(list), client)

InList(list, client) == \E i \in 1..Len(list) : list[i] = client

\* self.client_left(client, self); if client in self.clients: remove it
ClientLeft(h) ==
    /\ pc[h] = "left"
    /\ LET client == loc[h].client
           raised == client_left(client)
           removes == raised = "none" /\ InList(clients, client)
       IN  /\ obs' = [obs EXCEPT ![h].client_left = @ + 1, ![h].left_arg = client,
                                 ![h].left_exc = raised]
           /\ clients' = IF removes THEN Remove(clients, client) ELSE clients
           /\ bc' = IF removes /\ bc.pc = "iter"
                    THEN [bc EXCEPT !.stable = @ \ {client.handler}]
                    ELSE bc
    /\ pc' = [pc EXCEPT ![h] = "done"]
    /\ loc' = [loc EXCEPT ![h] = NoLocals]
    /\ UNCHANGED <<id_counter, handlerVars, snd>>

\* ------------------------------ WebsocketServer.send_message_to_all
RegisteredHandlers == {clients[i].handler : i \in 1..Len(clients)}

\* the application calls send_message_to_all: the for loop starts
BroadcastStart ==
    /\ bc.pc # "iter"
    /\ bc.calls < MaxBroadcasts
    /\ bc' = [pc |-> "iter", it |-> 1, calls |-> bc.calls + 1,
              stable |-> RegisteredHandlers, delivered |-> <<>>]
    /\ UNCHANGED <<clients, id_counter, handlerVars, pc, loc, obs, snd>>

\* one turn of the loop: self._unicast_(client, msg), an attribute
\* WebsocketServer does not have
BroadcastStep ==
    /\ bc.pc = "iter"
    /\ bc' = IF bc.it > Len(clients) THEN [bc EXCEPT !.pc = "returned"]
             ELSE [bc EXCEPT !.pc = "AttributeError"]
    /\ UNCHANGED <<clients, id_counter, handlerVars, pc, loc, obs, snd>>

Next ==
    \/ \E h \in Handlers : Setup(h)
    \/ \E h \in Handlers : handshake(h)
    \/ \E h \in Handlers : NewClientLoad(h)
    \/ \E h \in Handlers : NewClientStore(h)
    \/ \E h \in Handlers : NewClientRecord(h)
    \/ \E h \in Handlers : NewClientAppend(h)
    \/ \E h \in Handlers : ReadLifecycle(h)
    \/ \E h \in Handlers : handler_to_client(h)
    \/ \E h \in Handlers : Dispatch(h)
    \/ \E h \in Handlers : HandleExit(h)
    \/ \E h \in Handlers : finish(h)
    \/ \E h \in Handlers : ClientLeft(h)

Spec == Init /\ [][Next]_vars

\* ------------------------------------------------ open connections
\* both connections have completed their handshakes, one after the other
InitOpen ==
    /\ clients = <<[id |-> 1, handler |-> 1], [id |-> 2, handler |-> 2]>>
    /\ id_counter = 2
    /\ keep_alive = [h \in Handlers |-> TRUE]
    /\ handshake_done = [h \in Handlers |-> TRUE]
    /\ valid_client = [h \in Handlers |-> TRUE]
    /\ message_or_binary = [h \in Handlers |-> 0]
    /\ message_buffer = [h \in Handlers |-> <<>>]
    /\ binary_buffer = [h \in Handlers |-> [own |-> FALSE, v |-> <<>>]]
    /\ class_binary_buffer = <<>>
    /\ download = <<>>
    /\ pc = [h \in Handlers |-> "handle"]
    /\ loc = [h \in Handlers |-> NoLocals]
    /\ obs = [h \in Handlers |->
                [NoObs EXCEPT !.response = 1, !.new_client = 1, !.assigned = h,
                              !.handshakes = 1]]
    /\ bc = [pc |-> "idle", it |-> 0, calls |-> 0, stable |-> {}, delivered |-> <<>>]
    /\ snd = NoSend

NextFrames ==
    \/ \E h \in Handlers : read_next_message(h)
    \/ \E h \in Handlers : handler_to_client(h)
    \/ \E h \in Handlers : Dispatch(h)
    \/ \E h \in Handlers : HandleExit(h)
    \/ \E h \in Handlers : finish(h)
    \/ \E h \in Handlers : ClientLeft(h)

SpecFrames == InitOpen /\ [][NextFrames]_vars

\* ------------------------------------- the application protocol
NextApp ==
    \/ \E h \in Handlers : ReadApp(h)
    \/ \E h \in Handlers : handler_to_client(h)
    \/ \E h \in Handlers : Dispatch(h)
    \/ \E h \in Handlers : HandleExit(h)
    \/ \E h \in Handlers : finish(h)
    \/ \E h \in Handlers : ClientLeft(h)

SpecApp == InitOpen /\ [][NextApp]_vars

\* ------------------------------------------- streams that end early
NextTruncated ==
    \/ \E h \in Handlers : ReadTruncated(h)
    \/ \E h \in Handlers : ReadWhole(h)
    \/ \E h \in Handlers : handler_to_client(h)
    \/ \E h \in Handlers : Dispatch(h)
    \/ \E h \in Handlers : HandleExit(h)
    \/ \E h \in Handlers : finish(h)
    \/ \E h \in Handlers : ClientLeft(h)

SpecTruncated == InitOpen /\ [][NextTruncated]_vars

\* --------------------------------------- broadcast to open connections
NextBroadcast ==
    \/ BroadcastStart
    \/ BroadcastStep
    \/ \E h \in Handlers : ReadLifecycle(h)
    \/ \E h \in Handlers : handler_to_client(h)
    \/ \E h \in Handlers : Dispatch(h)
    \/ \E h \in Handlers : HandleExit(h)
    \/ \E h \in Handlers : finish(h)
    \/ \E h \in Handlers : ClientLeft(h)

SpecBroadcast == InitOpen /\ [][NextBroadcast]_vars

\* ------------------------------------------------- the send path alone
\* payload sizes around the multiples of the 125-byte chunk
SendLengths ==
    {n \in {q * 125 + r : q \in 0..MaxChunks, r \in {-1, 0, 1, 2, 50}} : n >= 0}

\* n ASCII letters, n bytes
AsciiText(n) == [i \in 1..n |-> 97 + (i % 26)]
BinaryData(n) == [i \in 1..n |-> (i * 7) % 256]

\* n bytes of text with a two-byte character (U+00E9) in front, and with it
\* on bytes 125 and 126
WideFirst(n) == <<233>> \o AsciiText(n - 2)
WideAcross(n) == AsciiText(124) \o <<233>> \o AsciiText(n - 126)

\* the messages handed to send_text, send_binary and continue_send_binary
TextMessages ==
    {Str(AsciiText(n)) : n \in SendLengths}
    \cup {Bytes(AsciiText(n)) : n \in SendLengths}
    \cup {Str(WideFirst(n)) : n \in {m \in SendLengths : m >= 2}}
    \cup {Str(WideAcross(n)) : n \in {m \in SendLengths : m >= 126}}
    \cup {Bytes(encode_to_UTF8(WideAcross(n)).b) : n \in {m \in SendLengths : m >= 126}}
    \cup {Bytes(<<255>> \o AsciiText(n)) : n \in {0, 1}}
    \cup {Bytes(AsciiText(125) \o <<255>> \o AsciiText(n)) : n \in {0, 1}}

BinaryMessages == {ByteArray(BinaryData(n)) : n \in SendLengths}

InitSend ==
    /\ InitServer
    /\ \E m \in TextMessages \cup BinaryMessages : snd = [NoSend EXCEPT !.arg = m]

serverVars == <<clients, id_counter, handlerVars, pc, loc, obs, bc>>

\* handler.send_text(message)
SendText ==
    /\ snd.op = "none"
    /\ snd' = [snd EXCEPT !.op = "send_text", !.res = send_text(snd.arg, OPCODE_TEXT)]
    /\ UNCHANGED serverVars

\* handler.send_pong(message)
SendPong ==
    /\ snd.op = "none"
    /\ snd' = [snd EXCEPT !.op = "send_pong", !.res = send_pong(snd.arg)]
    /\ UNCHANGED serverVars

\* handler.send_binary(message)
SendBinary ==
    /\ snd.op = "none"
    /\ snd.arg.t = "bytearray"
    /\ snd' = [snd EXCEPT !.op = "send_binary", !.res = send_binary(snd.arg, OPCODE_BINARY)]
    /\ UNCHANGED serverVars

\* handler.continue_send_binary(message)
ContinueSendBinary ==
    /\ snd.op = "none"
    /\ snd.arg.t = "bytearray"
    /\ snd' = [snd EXCEPT !.op = "continue_send_binary",
                          !.res = continue_send_binary(snd.arg, OPCODE_CONTINUATION)]
    /\ UNCHANGED serverVars

\* message_handler's '!submission' branch with upload/submission.zip holding
\* the bytes of the argument
Submission ==
    /\ snd.op = "none"
    /\ snd.arg.t = "bytearray"
    /\ snd' = [snd EXCEPT !.op = "submission",
                          !.res = SendResult("None", SendSubmission(snd.arg.v))]
    /\ UNCHANGED serverVars

NextSend ==
    \/ Submission
    \/ SendText
    \/ SendPong
    \/ SendBinary
    \/ ContinueSendBinary

SpecSend == InitSend /\ [][NextSend]_vars

\* ============================================================== claims
Registered(h) == obs[h].new_client > 0
Open(h) == valid_client[h] /\ keep_alive[h]

\* C1: every registered connection has an identity no other connection ever
\* registered has, and identities grow in registration order.
C1_IdentitiesUniqueAndIncreasing ==
    /\ \A g, h \in Handlers :
         (g # h /\ Registered(g) /\ Registered(h)) => obs[g].assigned # obs[h].assigned
    /\ \A i, j \in 1..Len(clients) : i < j => clients[i].id < clients[j].id

\* C2: the fragmentation accumulator of an open connection that is receiving a
\* fragmented binary message holds only bytes its own peer sent.
C2_AccumulatorHoldsOwnBytes ==
    \A h \in Handlers :
        (Open(h) /\ message_or_binary[h] = 1) =>
            \A i \in 1..Len(BinaryBufferOf(h)) : BinaryBufferOf(h)[i] \in PeerBytes(h)

\* C3: a continuation callback invoked for a connection carries exactly the
\* payload, unmasked, of the continuation frame its own peer sent, and no byte
\* of the other peer.
C3_ContinuationCarriesOwnFrame ==
    \A h \in Handlers :
        obs[h].call.op = "continuation" =>
            /\ obs[h].rx.opcode = OPCODE_CONTINUATION
            /\ obs[h].call.msg = obs[h].rx.plain
            /\ \A i \in 1..Len(obs[h].call.msg) : obs[h].call.msg[i] \in PeerBytes(h)

\* a continuation callback got a payload longer than the masking key while the
\* other connection is in the middle of a fragmented binary message of its own
C3_Witness ==
    \E g, h \in Handlers :
        /\ g # h
        /\ obs[h].call.op = "continuation"
        /\ Len(obs[h].call.msg) = MaxPayload
        /\ message_or_binary[h] = 1
        /\ message_or_binary[g] = 1
        /\ obs[g].nread > 0

\* C4: a frame whose mask bit is clear closes the connection and reaches no
\* handler, whatever its opcode and its payload.
C4_UnmaskedFrameCloses ==
    \A h \in Handlers :
        (obs[h].got = "frame" /\ ~obs[h].rx.masked) =>
            /\ ~keep_alive[h]
            /\ obs[h].call = NoCall
            /\ obs[h].wire = <<>>
            /\ obs[h].exc = "none"
            /\ pc[h] = "handle"

\* an unmasked text frame with a payload was read in the middle of a message
C4_Witness ==
    \E h \in Handlers :
        /\ obs[h].got = "frame"
        /\ ~obs[h].rx.masked
        /\ obs[h].rx.opcode = OPCODE_TEXT
        /\ Len(obs[h].rx.plain) = MaxPayload
        /\ obs[h].nread > 1
        /\ ~keep_alive[h]

\* C5: a masked ping is answered with exactly one pong frame carrying the
\* ping's payload, and the connection stays open.
C5_PingAnsweredByPong ==
    \A h \in Handlers :
        (obs[h].got = "frame" /\ obs[h].rx.masked /\ obs[h].rx.opcode = OPCODE_PING) =>
            /\ obs[h].wire = <<WireFrame(FIN + OPCODE_PONG, Len(obs[h].rx.plain),
                                         obs[h].rx.plain)>>
            /\ keep_alive[h]
            /\ obs[h].exc = "none"

\* the frames of one message: the first has the message's opcode, the others
\* are continuations, none holds more than 125 bytes, only the last has fin
\* set, a message of more than 125 bytes starts with 125 bytes in a frame
\* without fin, and the payloads together are the message
WellFramed(out, opcode, payload) ==
    /\ Len(out) >= 1
    /\ FrameOpcode(out[1]) = opcode
    /\ \A i \in 1..Len(out) :
        /\ Len(out[i].payload) <= 125
        /\ out[i].b1 = Len(out[i].payload)
        /\ i > 1 => FrameOpcode(out[i]) = OPCODE_CONTINUATION
        /\ FrameFin(out[i]) = (IF i = Len(out) THEN 1 ELSE 0)
    /\ Len(payload) <= 125 => Len(out) = 1
    /\ Len(payload) > 125 => Len(out[1].payload) = 125
    /\ Concat([i \in 1..Len(out) |-> out[i].payload]) = payload

\* the text a send_text argument stands for is valid: a str, or bytes that
\* are well-formed UTF-8
ValidText(m) == m.t = "str" \/ (m.t = "bytes" /\ try_decode_UTF8(m.v).ok)
TextPayload(m) == IF m.t = "str" THEN encode_to_UTF8(m.v).b ELSE m.v

\* C6: send_text of valid text writes the text in frames of at most 125
\* bytes: one fin=1 text frame up to 125 bytes, else a fin=0 text frame of 125
\* bytes and continuation frames, the last with fin=1.
C6_TextIsChunked ==
    (snd.op = "send_text" /\ ValidText(snd.arg)) =>
        WellFramed(snd.res.out, OPCODE_TEXT, TextPayload(snd.arg))

\* C7: send_binary transmits every byte of its payload: one fin=1 frame up to
\* 125 bytes, else a fin=0 binary frame of 125 bytes and continuation frames,
\* the last with fin=1.
C7_BinaryIsChunked ==
    snd.op = "send_binary" => WellFramed(snd.res.out, OPCODE_BINARY, snd.arg.v)

\* C8: a broadcast does not fail, and every connection registered from its
\* start to its end got the message exactly once.
C8_BroadcastReachesTheRest ==
    bc.pc \in {"returned", "AttributeError"} =>
        /\ bc.pc = "returned"
        /\ \A h \in bc.stable :
            Cardinality({i \in 1..Len(bc.delivered) : bc.delivered[i] = h}) = 1

\* C9: _client_left_ for a connection that is not in the registry fires no
\* client-left callback, raises nothing and leaves the registry alone.
C9_AbsentUnregisterIsNoOp ==
    \A h \in Handlers :
        (pc[h] = "done" /\ ~Registered(h)) =>
            /\ obs[h].client_left = 0
            /\ obs[h].left_exc = "none"

\* C10: a registered connection that has terminated is out of the registry,
\* and the client-left callback fired once for it, with its own client record.
C10_LeftOnceAndRemoved ==
    \A h \in Handlers :
        (pc[h] = "done" /\ Registered(h)) =>
            /\ h \notin RegisteredHandlers
            /\ obs[h].client_left = 1
            /\ obs[h].left_arg = [id |-> obs[h].assigned, handler |-> h]

\* the lifecycle state of a connection: 0 HANDSHAKING, 1 OPEN, 2 CLOSED
\* (keep_alive cleared, or the thread has left handle())
Closed(h) ==
    \/ pc[h] \in {"finish", "left", "done"}
    \/ pc[h] = "lookup" /\ loc[h].ret = "left"
    \/ pc[h] # "setup" /\ ~keep_alive[h]
Stage(h) == IF Closed(h) THEN 2 ELSE IF valid_client[h] THEN 1 ELSE 0

\* C11: a connection only moves HANDSHAKING -> OPEN -> CLOSED: keep_alive,
\* once cleared, stays cleared; the handshake runs and new-client fires at most
\* once; a frame is read, and a callback dispatched, only while the connection
\* is OPEN after a handshake that succeeded.
C11_LifecycleMovesForward ==
    /\ [](\A h \in Handlers : obs[h].handshakes <= 1 /\ obs[h].new_client <= 1)
    /\ [][\A h \in Handlers :
            /\ Stage(h)' >= Stage(h)
            /\ (pc[h] # "setup" /\ ~keep_alive[h]) => ~keep_alive'[h]
            /\ obs'[h].nread > obs[h].nread =>
                 (Stage(h) = 1 /\ handshake_done[h] /\ obs[h].response = 1)
            /\ (obs'[h].call # NoCall /\ obs'[h].call # obs[h].call) => Stage(h) = 1
            /\ Stage(h) = 2 => (obs'[h].nread = obs[h].nread /\ obs'[h].call \in {NoCall, obs[h].call})
       ]_vars

\* a connection went through the three states and is gone, having read a
\* frame, while the other one's handshake failed
C11_Witness ==
    \E g, h \in Handlers :
        /\ g # h
        /\ pc[h] = "done" /\ obs[h].new_client = 1 /\ obs[h].nread > 0 /\ ~keep_alive[h]
        /\ pc[g] = "done" /\ obs[g].handshakes = 1 /\ obs[g].new_client = 0

\* C12: after a handshake on a request that is not a GET, has a header line
\* without a colon, has no Upgrade: websocket header or has no
\* Sec-WebSocket-Key, no 101 response was written, the connection is not in
\* the registry, new-client did not fire and the connection is CLOSED.
C12_BadUpgradeIsRefused ==
    \A h \in Handlers :
        (obs[h].handshakes > 0 /\ obs[h].defect) =>
            /\ obs[h].response = 0
            /\ h \notin RegisteredHandlers
            /\ obs[h].new_client = 0
            /\ ~valid_client[h] /\ ~handshake_done[h]
            /\ Closed(h)

\* one handshake was refused by clearing keep_alive and another by an
\* exception, and both connections are gone
C12_Witness ==
    \E g, h \in Handlers :
        /\ obs[g].defect /\ obs[g].exc = "none" /\ pc[g] = "done"
        /\ obs[h].defect /\ obs[h].exc = "KeyError" /\ pc[h] = "done"

\* C13: a send_text call that refuses data as not valid UTF-8, at its first
\* check or in a later chunk, has written no byte of the message.
C13_InvalidTextSendsNothing ==
    (snd.op = "send_text" /\ snd.res.log = "not valid UTF-8") => snd.res.out = <<>>

\* the frame the peer of h sent last is a whole echo command, and the thread
\* is through with it
EchoContent(h) == Drop(obs[h].rx.plain, Len(EchoPrefix))
EchoHandled(h) ==
    /\ obs[h].got = "frame"
    /\ obs[h].rx.opcode = OPCODE_TEXT /\ obs[h].rx.fin /\ obs[h].rx.masked
    /\ Take(obs[h].rx.plain, Len(EchoPrefix)) = EchoPrefix
    /\ EchoContent(h) # <<>>
    /\ pc[h] \in {"handle", "finish"}

\* C14: a whole masked text frame "!echo <content>" makes the server write
\* exactly one fin=1 text frame holding <content> to the connection it came
\* from.
C14_EchoComesBack ==
    \A h \in Handlers :
        EchoHandled(h) =>
            /\ obs[h].wire = <<WireFrame(FIN + OPCODE_TEXT, Len(EchoContent(h)), EchoContent(h))>>
            /\ obs[h].exc = "none"

\* C15: a continuation frame is routed to the reassembly path of the kind of
\* the fragmented message in progress on its connection, and to neither path
\* when no message is in progress.
C15_ContinuationFollowsKind ==
    \A h \in Handlers :
        (pc[h] = "dispatch" /\ loc[h].op = "continuation" /\ loc[h].client # None) =>
            ContinuationPath(message_or_binary[h]) = obs[h].kind

\* C16: after a frame with fin=1 was processed the connection's accumulators
\* are empty, and after a fin=0 text or binary frame the accumulator of its
\* kind holds that frame's payload and nothing else.
C16_AccumulatorsStartEmpty ==
    \A h \in Handlers :
        (obs[h].call.op # "none" /\ obs[h].exc = "none") =>
            /\ obs[h].call.fin => (message_buffer[h] = <<>> /\ BinaryBufferOf(h) = <<>>)
            /\ (~obs[h].call.fin /\ obs[h].call.op = "text") =>
                 message_buffer[h] = try_decode_UTF8(obs[h].call.msg).s
            /\ (~obs[h].call.fin /\ obs[h].call.op = "binary") =>
                 BinaryBufferOf(h) = obs[h].call.msg

\* C17: when the final continuation frame of a fragmented text or binary
\* message was processed, the server has answered as it answers the same
\* message sent in one fin=1 frame: the echo of an "!echo <content>" text, the
\* verdict on all the bytes of a binary message.
C17_FragmentsAnswerAsWhole ==
    \A h \in Handlers :
        (/\ obs[h].call.op = "continuation" /\ obs[h].call.fin
         /\ obs[h].whole.kind \in {"text", "binary"}
         /\ pc[h] \in {"handle", "finish"}) =>
            /\ obs[h].exc = "none"
            /\ obs[h].wire =
                 CallbackEffect(obs[h].whole.kind, [id |-> obs[h].assigned, handler |-> h],
                                [mbuf |-> <<>>, mob |-> 0], obs[h].whole.msg, TRUE).out

\* C18: the reply to a file submission is one binary frame and continuation
\* frames of at most 125 bytes, exactly the last with fin=1, that together
\* hold the file, whatever the file's size.
C18_SubmissionIsWellFramed ==
    snd.op = "submission" => WellFramed(snd.res.out, OPCODE_BINARY, snd.arg.v)

\* C19: a frame cut short by the end of the stream closes the connection and
\* reaches no handler, and every payload handed to a handler is as long as
\* its frame's header says.
C19_TruncatedFrameIsDropped ==
    \A h \in Handlers :
        /\ obs[h].got = "short" => (Closed(h) /\ obs[h].call = NoCall /\ obs[h].wire = <<>>)
        /\ obs[h].call.op # "none" => Len(obs[h].call.msg) = Len(obs[h].rx.plain)

\* C20: a text, binary or continuation callback dispatched for a frame read on
\* a registered connection gets that connection's own client record.
C20_CallbackGetsOwnRecord ==
    \A h \in Handlers :
        (obs[h].call.op # "none" /\ Registered(h)) =>
            obs[h].call.client = [id |-> obs[h].assigned, handler |-> h]

\* C21: the client-left callback is invoked only for a connection for which
\* the new-client callback was invoked before; a connection whose handshake
\* failed gets none.
C21_LeftOnlyAfterNew ==
    \A h \in Handlers : obs[h].client_left > 0 => obs[h].new_client > 0

====
